---- MODULE Spec2Model ----
(***************************************************************************)
(* Model of the overflow-proof crate: the wrapper pair Checked / Unchecked *)
(* (src/lib.rs) and the checked-arithmetic capability traits with their    *)
(* per-type implementations (src/base_checked_ops.rs).                     *)
(*                                                                         *)
(* The 8-bit instantiations (u8, i8) of impl_checked_all are modelled at   *)
(* their real width; the wider types are instances of the same macros.     *)
(* One behaviour is one expression: a Checked is built, operators are      *)
(* chained on it, the Unchecked is collapsed with check(), and the Checked *)
(* at hand is compared or converted back to the inner type.                *)
(***************************************************************************)
EXTENDS Integers, Sequences, FiniteSets

\* ------------------------------------------------------------------------
\* Bounds of the model (not program constants)
\* ------------------------------------------------------------------------

\* longest chain of operators applied before check()
MaxChain == 2

\* the exact (unbounded) value of a chain is followed while it stays within
\* Slack of the range of the type; beyond, it is only known to be out of range
Slack == 8

\* ------------------------------------------------------------------------
\* Inner integer types
\* ------------------------------------------------------------------------

\* width of u8 / i8
Bits == 8

\* the types impl_checked_all! is invoked for
SupportedTypes ==
    {"usize", "isize", "u8", "i8", "u16", "i16", "u32", "i32", "u64", "i64",
     "u128", "i128"}

\* the instantiations modelled at their width
IntTypes == {"u8", "i8"}

Signed(t) == t = "i8"

Modulus == 2 ^ Bits

MinOf(t) == IF Signed(t) THEN -(2 ^ (Bits - 1)) ELSE 0

MaxOf(t) == IF Signed(t) THEN 2 ^ (Bits - 1) - 1 ELSE 2 ^ Bits - 1

TypeRange(t) == MinOf(t)..MaxOf(t)

\* two's complement truncation of an unbounded integer to the type
Wrap(t, x) ==
    LET m == x % Modulus
    IN  IF Signed(t) /\ m >= 2 ^ (Bits - 1) THEN m - Modulus ELSE m

Abs(x) == IF x < 0 THEN -x ELSE x

\* integer division truncating toward zero (b # 0)
TruncDiv(a, b) ==
    LET q == Abs(a) \div Abs(b)
    IN  IF (a < 0) = (b < 0) THEN q ELSE -q

\* remainder with the sign of the dividend (b # 0)
TruncRem(a, b) == a - b * TruncDiv(a, b)

\* ------------------------------------------------------------------------
\* Option<T> and the outcome of a call
\* ------------------------------------------------------------------------

None == [tag |-> "None", v |-> 0]

Some(x) == [tag |-> "Some", v |-> x]

\* a call that does not return: the thread panics
Panic == [tag |-> "Panic", v |-> 0]

\* the inner type's plain `/` and `%`: panic on a zero divisor and on MIN / -1
int_div(t, a, b) ==
    IF b = 0 \/ (Signed(t) /\ a = MinOf(t) /\ b = -1)
    THEN Panic
    ELSE Some(TruncDiv(a, b))

int_rem(t, a, b) ==
    IF b = 0 \/ (Signed(t) /\ a = MinOf(t) /\ b = -1)
    THEN Panic
    ELSE Some(TruncRem(a, b))

\* ------------------------------------------------------------------------
\* The inner type's checked primitives, reached by `self.$checked_op(rhs)`
\* ------------------------------------------------------------------------

\* variant: the edge values of the type are taken for overflow
KeepInsideOnly(t, x) ==
    IF MinOf(t) < x /\ x < MaxOf(t) THEN Some(x) ELSE None

\* variant: the wrapped result is always kept
KeepWrapping(t, x) == Some(Wrap(t, x))

\* the result wrapped to the type, kept only when nothing was lost
Keep(t, x) == IF Wrap(t, x) = x THEN Some(Wrap(t, x)) ELSE None

int_checked_add(t, a, b) == Keep(t, a + b)

int_checked_sub(t, a, b) == Keep(t, a - b)

int_checked_mul(t, a, b) == Keep(t, a * b)

\* variant: the plain division, with no test of the operands before it
int_unguarded_div(t, a, b) == int_div(t, a, b)

int_checked_div(t, a, b) ==
    IF b = 0 THEN None
    ELSE IF Signed(t) /\ a = MinOf(t) /\ b = -1 THEN None
    ELSE int_div(t, a, b)

int_checked_rem(t, a, b) ==
    IF b = 0 THEN None
    ELSE IF Signed(t) /\ a = MinOf(t) /\ b = -1 THEN None
    ELSE int_rem(t, a, b)

\* variant: wrapping negation
int_wrapping_neg(t, a) == Some(Wrap(t, 0 - a))

int_checked_neg(t, a) == Keep(t, 0 - a)

\* ------------------------------------------------------------------------
\* Capability traits (base_checked_ops.rs)
\* ------------------------------------------------------------------------

\* the traits the module declares
Traits ==
    {"CheckedAdd", "CheckedSub", "CheckedMul", "CheckedDiv", "CheckedRem",
     "CheckedAbs", "CheckedNeg"}

BinaryTraits == {"CheckedAdd", "CheckedSub", "CheckedMul", "CheckedDiv", "CheckedRem"}

\* variant: the CheckedRem line of impl_checked_all! left out
ImplementedWithoutRem(t) ==
    {"CheckedAdd", "CheckedSub", "CheckedMul", "CheckedDiv", "CheckedNeg"}

\* impl_checked_all!($t): the traits implemented for an integer type
ImplementedFor(t) ==
    {"CheckedAdd", "CheckedSub", "CheckedMul", "CheckedDiv", "CheckedRem",
     "CheckedNeg"}

\* the inherent method `self.$checked_op(rhs)` the macro body names
IntMethod2(tr, t, a, b) ==
    CASE tr = "CheckedAdd" -> int_checked_add(t, a, b)
      [] tr = "CheckedSub" -> int_checked_sub(t, a, b)
      [] tr = "CheckedMul" -> int_checked_mul(t, a, b)
      [] tr = "CheckedDiv" -> int_checked_div(t, a, b)
      [] tr = "CheckedRem" -> int_checked_rem(t, a, b)

IntMethod1(tr, t, a) ==
    CASE tr = "CheckedNeg" -> int_checked_neg(t, a)

\* impl $checked_t for $t
checked_op_raw(tr, t, a, b) == IntMethod2(tr, t, a, b)

\* variant: the operands handed over in the other order
checked_op_wrapped_swapped(tr, t, a, c) == IntMethod2(tr, t, c.v, a)

\* impl<D> $checked_t<Checked<$t, D>> for $t
checked_op_wrapped(tr, t, a, c) == IntMethod2(tr, t, a, c.v)

\* impl_checked_trait_1_for
checked_op_unary(tr, t, a) == IntMethod1(tr, t, a)

\* ------------------------------------------------------------------------
\* Checked<T, D> and Unchecked<T, D> (lib.rs)
\* ------------------------------------------------------------------------

Tags == {"WithDeref", "WithoutDeref"}

\* Self { v, _deref: PhantomData } with D fixed by the constructor
new(v) == [v |-> v, deref |-> "WithDeref"]

new_with_deref(v) == [v |-> v, deref |-> "WithDeref"]

new_without_deref(v) == [v |-> v, deref |-> "WithoutDeref"]

\* From<T> for Checked<T, D>, D chosen by the target type
from(v, d) == [v |-> v, deref |-> d]

Constructors == {"new", "new_with_deref", "new_without_deref", "from_WithDeref", "from_WithoutDeref"}

Construct(ctor, v) ==
    CASE ctor = "new" -> new(v)
      [] ctor = "new_with_deref" -> new_with_deref(v)
      [] ctor = "new_without_deref" -> new_without_deref(v)
      [] ctor = "from_WithDeref" -> from(v, "WithDeref")
      [] ctor = "from_WithoutDeref" -> from(v, "WithoutDeref")

into_inner(self) == self.v

\* variant: a default value instead of the clone
to_inner_default(self) == 0

to_inner(self) == self.v

deref(self) == self.v

\* a right-hand operand: a raw T, or a Checked<T, D>
RawRhs(b) == [kind |-> "raw", v |-> b, deref |-> "-"]

CheckedRhs(c) == [kind |-> "checked", v |-> c.v, deref |-> c.deref]

\* trait resolution of `$checked_method(rhs)` on the type of rhs
checked_method(tr, t, a, rhs) ==
    IF rhs.kind = "raw"
    THEN checked_op_raw(tr, t, a, rhs.v)
    ELSE checked_op_wrapped(tr, t, a, [v |-> rhs.v, deref |-> rhs.deref])

\* the operator traits impl_op! is instantiated for, with their checked trait
OpTrait(op) ==
    CASE op = "Add" -> "CheckedAdd"
      [] op = "Sub" -> "CheckedSub"
      [] op = "Mul" -> "CheckedMul"
      [] op = "Div" -> "CheckedDiv"

Ops == {"Add", "Sub", "Mul", "Div"}

\* impl $op<Rhs> for Checked<T, D>
Checked_op(op, t, self, rhs) ==
    [v |-> checked_method(OpTrait(op), t, self.v, rhs), deref |-> self.deref]

\* variant: an overflowed left operand restarts from the default value
Unchecked_op_restarting(op, t, self, rhs) ==
    [v |-> checked_method(OpTrait(op), t,
                          IF self.v.tag = "Some" THEN self.v.v ELSE 0, rhs),
     deref |-> self.deref]

\* impl $op<Rhs> for Unchecked<T, D>: self.v.and_then(|v| v.$checked_method(rhs))
Unchecked_op(op, t, self, rhs) ==
    [v |-> IF self.v.tag = "Some"
           THEN checked_method(OpTrait(op), t, self.v.v, rhs)
           ELSE None,
     deref |-> self.deref]

\* payload of an absent Option<Checked>
NoChecked == [v |-> 0, deref |-> "-"]

NoneChecked == [tag |-> "None", v |-> NoChecked]

\* variant: the result built with Checked::new, which fixes the tag
check_with_new(self) ==
    IF self.v.tag = "Some"
    THEN [tag |-> "Some", v |-> new(self.v.v)]
    ELSE NoneChecked

\* Unchecked::check: self.v.map(|v| Checked { v, _deref: PhantomData })
check(self) ==
    IF self.v.tag = "Some"
    THEN [tag |-> "Some", v |-> [v |-> self.v.v, deref |-> self.deref]]
    ELSE NoneChecked

\* variant: the comparison a derive over both fields would give
eq_with_tag(self, other) == self.v = other.v /\ self.deref = other.deref

\* PartialEq<Checked<T, D1>> for Checked<T, D2>
eq(self, other) == self.v = other.v

\* ------------------------------------------------------------------------
\* State
\* ------------------------------------------------------------------------

VARIABLES
    T,      \* the inner integer type of the expression
    pc,     \* "idle", "checked", "unchecked", "collapsed", "used", "moved",
            \* "called", "panicked"
    built,  \* how the Checked at hand was constructed, and from which raw value
    lhs,    \* the Checked<T, D> constructed, until an operator consumes it
    acc,    \* the Unchecked<T, D> intermediate
    res,    \* the Option<Checked<T, D>> returned by check()
    last,   \* the operator applied by the latest step and its right operand
    n,      \* number of operators applied so far
    math,   \* history: the exact value of the chain over the unbounded integers
    ok,     \* history: every prefix of the chain so far is defined and fits T
    view,   \* the last conversion to the inner type and what it returned
    cmp,    \* the last comparison: both sides and both results
    call    \* the last direct call of a capability-trait method

vars == <<T, pc, built, lhs, acc, res, last, n, math, ok, view, cmp, call>>

\* the operands tried: the edges of the type and their neighbours, the values
\* around zero, the values of the crate's tests (1, 2, 5, 12, 100, MAX) and
\* of the 8-bit scenarios (50, 200)
Operands(t) ==
    {MinOf(t), MinOf(t) + 1, MaxOf(t) - 1, MaxOf(t), 0, 1, 2, 5, 12, 50, 100}
        \cup (IF Signed(t) THEN {-1} ELSE {200})

RhsSet(t) ==
    {RawRhs(b) : b \in Operands(t)}
        \cup {CheckedRhs(from(b, d)) : b \in Operands(t), d \in Tags}

NoUnchecked == [v |-> None, deref |-> "-"]

NoOp == [op |-> "-", rhs |-> RawRhs(0)]

NoBuilt == [by |-> "-", v |-> 0]

NoView == [fn |-> "-", self |-> NoChecked, out |-> 0]

NoCmp == [self |-> NoChecked, other |-> NoChecked, ab |-> FALSE, ba |-> FALSE]

NoCall == [tr |-> "-", a |-> 0, rhs |-> RawRhs(0), r |-> None]

\* the exact value is not followed (a division by zero, or beyond Slack)
Untracked == [def |-> FALSE, v |-> 0]

Tracked(t, x) ==
    IF MinOf(t) - Slack <= x /\ x <= MaxOf(t) + Slack
    THEN [def |-> TRUE, v |-> x]
    ELSE Untracked

\* the operator over the unbounded integers
MathStep(t, op, m, b) ==
    IF ~m.def THEN Untracked
    ELSE CASE op = "Add" -> Tracked(t, m.v + b)
           [] op = "Sub" -> Tracked(t, m.v - b)
           [] op = "Mul" -> Tracked(t, m.v * b)
           [] op = "Div" -> IF b = 0 THEN Untracked ELSE Tracked(t, TruncDiv(m.v, b))

Fits(t, m) == m.def /\ m.v \in TypeRange(t)

Init ==
    /\ T \in IntTypes
    /\ pc = "idle"
    /\ built = NoBuilt
    /\ lhs = NoChecked
    /\ acc = NoUnchecked
    /\ res = NoneChecked
    /\ last = NoOp
    /\ n = 0
    /\ math = Untracked
    /\ ok = TRUE
    /\ view = NoView
    /\ cmp = NoCmp
    /\ call = NoCall

\* ------------------------------------------------------------------------
\* Operations
\* ------------------------------------------------------------------------

\* Checked::new / new_with_deref / new_without_deref / From<T>
New ==
    /\ pc = "idle"
    /\ \E ctor \in Constructors, v \in Operands(T) :
        /\ built' = [by |-> ctor, v |-> v]
        /\ lhs' = Construct(ctor, v)
        /\ math' = Tracked(T, v)
    /\ pc' = "checked"
    /\ UNCHANGED <<T, acc, res, last, n, ok, view, cmp, call>>

\* Checked<T, D> $op rhs (self is taken by value)
CheckedOp ==
    /\ pc = "checked"
    /\ n < MaxChain
    /\ \E op \in Ops, rhs \in RhsSet(T) :
        /\ LET r == Checked_op(op, T, lhs, rhs)
           IN  IF r.v.tag = "Panic"
               THEN pc' = "panicked" /\ acc' = acc
               ELSE pc' = "unchecked" /\ acc' = r
        /\ last' = [op |-> op, rhs |-> rhs]
        /\ n' = n + 1
        /\ math' = MathStep(T, op, math, rhs.v)
        /\ ok' = (ok /\ Fits(T, math'))
    /\ lhs' = NoChecked
    /\ built' = NoBuilt
    /\ UNCHANGED <<T, res, view, cmp, call>>

\* Unchecked<T, D> $op rhs
UncheckedOp ==
    /\ pc = "unchecked"
    /\ n < MaxChain
    /\ \E op \in Ops, rhs \in RhsSet(T) :
        /\ LET r == Unchecked_op(op, T, acc, rhs)
           IN  IF r.v.tag = "Panic"
               THEN pc' = "panicked" /\ acc' = acc
               ELSE pc' = "unchecked" /\ acc' = r
        /\ last' = [op |-> op, rhs |-> rhs]
        /\ n' = n + 1
        /\ math' = MathStep(T, op, math, rhs.v)
        /\ ok' = (ok /\ Fits(T, math'))
    /\ UNCHANGED <<T, built, lhs, res, view, cmp, call>>

\* Unchecked::check(self)
Check ==
    /\ pc = "unchecked"
    /\ pc' = "collapsed"
    /\ res' = check(acc)
    /\ acc' = NoUnchecked
    /\ last' = NoOp
    /\ UNCHANGED <<T, built, lhs, n, math, ok, view, cmp, call>>

\* the Checked at hand: the constructed one, or the one check() returned
HasChecked == pc = "checked" \/ (pc = "collapsed" /\ res.tag = "Some")

Held == IF pc = "checked" THEN lhs ELSE res.v

\* Checked::to_inner(&self)
ToInner ==
    /\ HasChecked
    /\ pc' = "used"
    /\ view' = [fn |-> "to_inner", self |-> Held, out |-> to_inner(Held)]
    /\ UNCHANGED <<T, built, lhs, acc, res, last, n, math, ok, cmp, call>>

\* Deref for Checked<T, WithDeref>
Deref ==
    /\ HasChecked
    /\ Held.deref = "WithDeref"
    /\ pc' = "used"
    /\ view' = [fn |-> "deref", self |-> Held, out |-> deref(Held)]
    /\ UNCHANGED <<T, built, lhs, acc, res, last, n, math, ok, cmp, call>>

\* Checked::into_inner(self)
IntoInner ==
    /\ HasChecked
    /\ pc' = "moved"
    /\ view' = [fn |-> "into_inner", self |-> Held, out |-> into_inner(Held)]
    /\ UNCHANGED <<T, built, lhs, acc, res, last, n, math, ok, cmp, call>>

\* Checked<T, D2> == Checked<T, D1>, asked in both directions
Eq ==
    /\ HasChecked
    /\ pc' = "used"
    /\ \E y \in Operands(T) \cup {Held.v}, d \in Tags :
        LET other == from(y, d)
        IN  cmp' = [self |-> Held, other |-> other,
                    ab |-> eq(Held, other), ba |-> eq(other, Held)]
    /\ UNCHANGED <<T, built, lhs, acc, res, last, n, math, ok, view, call>>

\* a capability-trait method called directly on the inner type
CallBinary ==
    /\ pc = "idle"
    /\ \E tr \in ImplementedFor(T) \cap BinaryTraits, a \in Operands(T), rhs \in RhsSet(T) :
        LET r == checked_method(tr, T, a, rhs)
        IN  /\ pc' = IF r.tag = "Panic" THEN "panicked" ELSE "called"
            /\ call' = [tr |-> tr, a |-> a, rhs |-> rhs, r |-> r]
    /\ UNCHANGED <<T, built, lhs, acc, res, last, n, math, ok, view, cmp>>

CallUnary ==
    /\ pc = "idle"
    /\ \E tr \in ImplementedFor(T) \ BinaryTraits, a \in Operands(T) :
        LET r == checked_op_unary(tr, T, a)
        IN  /\ pc' = IF r.tag = "Panic" THEN "panicked" ELSE "called"
            /\ call' = [tr |-> tr, a |-> a, rhs |-> RawRhs(0), r |-> r]
    /\ UNCHANGED <<T, built, lhs, acc, res, last, n, math, ok, view, cmp>>

Next ==
    \/ New
    \/ CheckedOp
    \/ UncheckedOp
    \/ Check
    \/ ToInner
    \/ Deref
    \/ IntoInner
    \/ Eq
    \/ CallBinary
    \/ CallUnary

Spec == Init /\ [][Next]_vars

\* ------------------------------------------------------------------------
\* Properties
\* ------------------------------------------------------------------------

\* q is the quotient of a by b, rounded toward zero
IsQuot(a, b, q) ==
    LET r == a - q * b
    IN  /\ Abs(r) < Abs(b)
        /\ (r = 0 \/ ((r > 0) = (a > 0)))

\* e is the exact result of a op b
IsExact(op, a, b, e) ==
    CASE op = "Add" -> e = a + b
      [] op = "Sub" -> e = a - b
      [] op = "Mul" -> e = a * b
      [] op = "Div" -> b # 0 /\ IsQuot(a, b, e)

\* the step just taken applied an operator
OpStep == pc \in {"checked", "unchecked"} /\ pc' \in {"unchecked", "panicked"}

\* the divisions with no representable result
DivFails(t, a, b) == b = 0 \/ (Signed(t) /\ a = MinOf(t) /\ b = -1)

\* C1: an operator applied to Checked(a) with a raw right operand b whose
\* exact result a op b is defined and fits the type gives an Unchecked on
\* which check() returns Some(Checked(a op b)).
C1_ExactWhenRepresentable ==
    [][(pc = "checked" /\ OpStep /\ last'.rhs.kind = "raw") =>
        \A e \in TypeRange(T) :
            IsExact(last'.op, lhs.v, last'.rhs.v, e) =>
                /\ pc' = "unchecked"
                /\ check(acc').tag = "Some"
                /\ check(acc').v.v = e]_vars

\* 200 - 50, collapsed
C1_Witness ==
    /\ T = "u8" /\ pc = "collapsed" /\ n = 1
    /\ res.tag = "Some" /\ res.v.v = 150

\* C2: once an Unchecked is Overflowed, every further operator leaves it
\* Overflowed, and check() on it returns None.
C2_OverflowIsContagious ==
    [][(pc = "unchecked" /\ acc.v.tag = "None") =>
        /\ pc' \in {"unchecked", "collapsed"}
        /\ (pc' = "unchecked" => acc'.v.tag = "None")
        /\ (pc' = "collapsed" => res'.tag = "None")]_vars

\* 255 + 5 - 100: overflowed by the addition, still overflowed after the
\* subtraction that brings the exact value back into range
C2_Witness ==
    /\ T = "u8" /\ pc = "unchecked" /\ n = 2
    /\ last.op = "Sub" /\ last.rhs.v = 100
    /\ math = [def |-> TRUE, v |-> 160]
    /\ acc.v.tag = "None"

\* C3: the chain holds a value, and check() returns Some(Checked(v)), if and
\* only if the exact result of every prefix of the chain is defined and fits
\* the type, and then v is the exact result of the whole chain.
C3_OverflowDecidedPerStep ==
    /\ pc = "unchecked" =>
        /\ (acc.v.tag = "Some") = ok
        /\ (ok => acc.v.v = math.v)
    /\ pc = "collapsed" =>
        /\ (res.tag = "Some") = ok
        /\ (ok => res.v.v = math.v)

\* 255 + 5 - 100 collapses to None although its exact value, 160, fits u8
C3_Witness ==
    /\ T = "u8" /\ pc = "collapsed" /\ n = 2
    /\ math = [def |-> TRUE, v |-> 160]
    /\ ~ok
    /\ res.tag = "None"

\* C4: no operator application panics, and a division by zero, or of MIN by
\* -1, applied to a Checked or to a Valid Unchecked gives an Overflowed
\* Unchecked whose check() returns None.
C4_DivisionFailureIsAValue ==
    [][/\ pc' # "panicked"
       /\ (/\ OpStep
           /\ last'.op = "Div"
           /\ (pc = "unchecked" => acc.v.tag = "Some")
           /\ DivFails(T, IF pc = "checked" THEN lhs.v ELSE acc.v.v, last'.rhs.v))
          => (acc'.v.tag = "None" /\ check(acc').tag = "None")]_vars

\* i8: (-128 * 1) / -1 on a Valid Unchecked
C4_Witness ==
    /\ T = "i8" /\ pc = "unchecked" /\ n = 2
    /\ last.op = "Div" /\ last.rhs.v = -1
    /\ math = [def |-> TRUE, v |-> 128]
    /\ acc.v.tag = "None"

\* C5: Checked<T, D2>(x) == Checked<T, D1>(y) holds if and only if x = y,
\* whatever the two tags, and the answer is the same in both directions.
C5_EqualityIgnoresTag ==
    cmp # NoCmp =>
        /\ cmp.ab = (cmp.self.v = cmp.other.v)
        /\ cmp.ba = cmp.ab

\* equal values under different tags compare equal
C5_Witness ==
    /\ cmp # NoCmp
    /\ cmp.self.deref = "WithoutDeref" /\ cmp.other.deref = "WithDeref"
    /\ cmp.self.v = cmp.other.v
    /\ cmp.ab

\* C6: a Checked built from a raw value v by new, new_with_deref,
\* new_without_deref or From returns exactly v from into_inner(), to_inner()
\* and (WithDeref) deref; deref shows what to_inner() returns; to_inner() and
\* deref leave the wrapper unchanged.
C6_RoundTrip ==
    [][view' # view =>
        /\ built.by # "-" => (view'.self = lhs /\ view'.out = built.v)
        /\ view'.fn = "deref" =>
            (view'.self.deref = "WithDeref" /\ view'.out = to_inner(view'.self))
        /\ view'.fn \in {"to_inner", "deref"} => (lhs' = lhs /\ res' = res)]_vars

\* MAX through new_with_deref and deref
C6_Witness ==
    /\ pc = "used" /\ view.fn = "deref"
    /\ built = [by |-> "new_with_deref", v |-> MaxOf(T)]
    /\ view.out = MaxOf(T)

\* C7: an operator applied with right operand Checked<T, D>(b) gives the same
\* Unchecked (the same Some(value) or the same None) as with right operand b.
C7_WrappedRhsAsRaw ==
    [][(OpStep /\ last'.rhs.kind = "checked") =>
        /\ pc' = "unchecked"
        /\ acc' = IF pc = "checked"
                  THEN Checked_op(last'.op, T, lhs, RawRhs(last'.rhs.v))
                  ELSE Unchecked_op(last'.op, T, acc, RawRhs(last'.rhs.v))]_vars

\* 1 * 12 - Checked(2): a Valid result with a wrapped right operand
C7_Witness ==
    /\ T = "u8" /\ pc = "unchecked" /\ n = 2
    /\ last.rhs.kind = "checked" /\ last.rhs.deref = "WithoutDeref"
    /\ last.op = "Sub" /\ last.rhs.v = 2
    /\ acc.v = Some(10)

\* C8 (as stated): every supported integer type implements every declared
\* capability trait, CheckedAbs included.
C8_AllTraitsImplemented ==
    /\ \A t \in SupportedTypes : Traits \subseteq ImplementedFor(t)
    /\ Traits \subseteq ImplementedFor(T)

\* C8 (amended): every supported integer type implements CheckedAdd,
\* CheckedSub, CheckedMul, CheckedDiv, CheckedRem and CheckedNeg, and no type
\* implements CheckedAbs; a trait method is only ever called through one of
\* these implementations.
C8_AllButAbsImplemented ==
    /\ \A t \in SupportedTypes : ImplementedFor(t) = Traits \ {"CheckedAbs"}
    /\ call # NoCall => call.tr \in ImplementedFor(T)

\* checked_rem called through its implementation for the type
C8_Witness ==
    /\ pc = "called" /\ call.tr = "CheckedRem" /\ call.r = Some(2)

\* C9: the tag of the left operand is carried by the Unchecked every operator
\* returns, whatever the tag of the right operand and whether or not the step
\* overflows, and by the Checked check() returns; the value and the overflow
\* state do not depend on the tag.
C9_TagInvariant ==
    [][/\ (pc = "checked" /\ pc' = "unchecked") =>
            /\ acc'.deref = lhs.deref
            /\ \A d \in Tags :
                acc'.v = Checked_op(last'.op, T, from(lhs.v, d), last'.rhs).v
       /\ (pc = "unchecked" /\ pc' = "unchecked") =>
            /\ acc'.deref = acc.deref
            /\ \A d \in Tags :
                acc'.v = Unchecked_op(last'.op, T, [v |-> acc.v, deref |-> d],
                                      last'.rhs).v
       /\ (pc = "unchecked" /\ pc' = "collapsed") =>
            /\ (res'.tag = "Some") = (acc.v.tag = "Some")
            /\ (res'.tag = "Some" => res'.v.deref = acc.deref)]_vars

\* a WithoutDeref chain, overflowed by an operator with a WithDeref operand
C9_Witness ==
    /\ pc = "unchecked" /\ n = 2
    /\ acc.deref = "WithoutDeref"
    /\ last.rhs.kind = "checked" /\ last.rhs.deref = "WithDeref"
    /\ acc.v.tag = "None"

\* C10: checked_rem(a, b) is None if b = 0 or (signed) a = MIN and b = -1 and
\* otherwise Some of the remainder of the division truncated toward zero;
\* checked_neg(a) is None for signed MIN and for every non-zero unsigned a,
\* and otherwise Some(-a).
C10_RemAndNeg ==
    /\ call.tr = "CheckedRem" =>
        IF DivFails(T, call.a, call.rhs.v)
        THEN call.r = None
        ELSE /\ call.r.tag = "Some"
             /\ \E q \in -Abs(call.a)..Abs(call.a) :
                    /\ IsQuot(call.a, call.rhs.v, q)
                    /\ call.r.v = call.a - q * call.rhs.v
    /\ call.tr = "CheckedNeg" =>
        IF (Signed(T) /\ call.a = MinOf(T)) \/ (~Signed(T) /\ call.a # 0)
        THEN call.r = None
        ELSE call.r = Some(0 - call.a)

\* i8: checked_rem(-128, -1)
C10_Witness ==
    /\ T = "i8" /\ pc = "called" /\ call.tr = "CheckedRem"
    /\ call.a = -128 /\ call.rhs.v = -1
    /\ call.r = None

====
